---- MODULE Spec2Model ----
(***************************************************************************)
(* A model of the hcygit1/mulity_rag sources:                              *)
(*   - rag-frontend/src/api/knowledge.js : KnowledgeLibraryAPI, a facade   *)
(*     of fourteen asynchronous operations over httpClient and fetch;      *)
(*   - package_project.sh and package_project.bat : the packaging scripts. *)
(*                                                                         *)
(* Strings are sequences of string pieces, so that template literals are   *)
(* concatenations, String.prototype.split is computed piece by piece and   *)
(* a number written into a string is its decimal digits.  Objects live in  *)
(* a heap and are named by a reference: two objects with the same content  *)
(* are still two objects.                                                  *)
(***************************************************************************)
EXTENDS Integers, Sequences, FiniteSets, TLC

VARIABLES
    calls,      \* the invocations of KnowledgeLibraryAPI methods, in call order
    network,    \* every request handed to httpClient or fetch, in issue order
    promises,   \* promises[i]: the promise the transport returned for network[i]
    console,    \* the console.error lines, in order
    heap,       \* reference -> object, for the objects the transport and the methods create
    script,     \* which packaging script runs: "sh" or "bat"
    pc,         \* index of the script's next command; 0 once it has ended
    cwd,        \* the script's working directory
    fs,         \* the file system: the set of paths that exist
    failed,     \* TRUE once some command of the script returned an error
    reported    \* TRUE once the script has printed its output file

apiVars == <<calls, network, promises, console, heap>>
pkgVars == <<script, pc, cwd, fs, failed, reported>>
vars == <<calls, network, promises, console, heap, script, pc, cwd, fs, failed, reported>>

(***************************************************************************)
(* Bounds of the model.                                                    *)
(***************************************************************************)
MaxCalls == 2       \* calls made, all of which may be in flight at once
MaxUrlLen == 3      \* pieces in an upload URL

(***************************************************************************)
(* Strings.                                                                *)
(***************************************************************************)
DigitChar == <<"0", "1", "2", "3", "4", "5", "6", "7", "8", "9">>

\* `${n}` for a number n >= 0: its decimal digits
RECURSIVE Digits(_)
Digits(n) ==
    IF n < 10 THEN <<DigitChar[n + 1]>>
    ELSE Digits(n \div 10) \o <<DigitChar[(n % 10) + 1]>>

\* s.split(sep) for a one-piece separator: the pieces between the separators
RECURSIVE SplitFrom(_, _, _, _)
SplitFrom(s, sep, i, cur) ==
    IF i > Len(s) THEN <<cur>>
    ELSE IF s[i] = sep THEN <<cur>> \o SplitFrom(s, sep, i + 1, <<>>)
    ELSE SplitFrom(s, sep, i + 1, Append(cur, s[i]))

Split(s, sep) == SplitFrom(s, sep, 1, <<>>)

\* all strings of at most n pieces over an alphabet
RECURSIVE StringsUpTo(_, _)
StringsUpTo(alphabet, n) ==
    IF n = 0 THEN {<<>>}
    ELSE LET shorter == StringsUpTo(alphabet, n - 1)
         IN  shorter \cup {Append(s, ch) : s \in shorter, ch \in alphabet}

(***************************************************************************)
(* Values: a field value is a number, a string or a file.                  *)
(***************************************************************************)
Num(n) == [t |-> "number", n |-> n, s |-> <<>>]
Text(s) == [t |-> "string", n |-> 0, s |-> s]
Blob(f) == [t |-> "file", n |-> 0, s |-> <<f.name>>]

\* an optional argument: left out (undefined), or given
Omitted == [given |-> FALSE, value |-> <<>>]
Given(s) == [given |-> TRUE, value |-> s]

\* a parameter with a default value: the default applies when the argument is undefined
DefaultTo(arg, default) == IF arg.given THEN arg.value ELSE default

\* FormData.append(name, value): a value that is not a file is stored as a string
FormValue(v) == IF v.t = "number" THEN Text(Digits(v.n)) ELSE v

NewFormData == [kind |-> "FormData", obj |-> "", fields |-> <<>>]
FormAppend(form, name, v) ==
    [form EXCEPT !.fields = Append(@, [name |-> name, value |-> FormValue(v)])]

\* request payloads
NoBody == [kind |-> "none", obj |-> "", fields |-> <<>>]
ObjBody(o) == [kind |-> "object", obj |-> o, fields |-> <<>>]
Literal(fields) == [kind |-> "literal", obj |-> "", fields |-> fields]
FileBody(f) == [kind |-> "file", obj |-> f.name, fields |-> <<>>]

(***************************************************************************)
(* Heap objects.                                                           *)
(***************************************************************************)
HttpValue(tag) ==
    [kind |-> "value", tag |-> tag, status |-> 0, text |-> <<>>, success |-> FALSE]
Failure(tag) ==
    [kind |-> "failure", tag |-> tag, status |-> 0, text |-> <<>>, success |-> FALSE]
Response(status, statusText) ==
    [kind |-> "Response", tag |-> "", status |-> status, text |-> statusText,
     success |-> FALSE]
\* new Error(message)
NewError(message) ==
    [kind |-> "Error", tag |-> "", status |-> 0, text |-> message, success |-> FALSE]
\* { success: true, url: url }
UploadResult(url) ==
    [kind |-> "result", tag |-> "", status |-> 0, text |-> url, success |-> TRUE]

\* References: the object the transport settles request i with, and the
\* object call c creates itself (its Error or its result).
TransportRef(i) == 2 * i - 1
OwnRef(c) == 2 * c
Alloc(ref, object) == heap' = heap @@ (ref :> object)

\* response.ok of a fetch Response
ResponseOk(r) == r.status >= 200 /\ r.status <= 299

(***************************************************************************)
(* KnowledgeLibraryAPI: requests.                                          *)
(***************************************************************************)
\* httpClient.get(path) and httpClient.get(path, query)
HttpGet(path, query) ==
    [via |-> "httpClient", verb |-> "GET", path |-> path, body |-> query,
     headers |-> <<>>]
\* httpClient.post(path, body)
HttpPost(path, body) ==
    [via |-> "httpClient", verb |-> "POST", path |-> path, body |-> body,
     headers |-> <<>>]
\* httpClient.put(path, body)
HttpPut(path, body) ==
    [via |-> "httpClient", verb |-> "PUT", path |-> path, body |-> body,
     headers |-> <<>>]
\* httpClient.delete(path)
HttpDelete(path) ==
    [via |-> "httpClient", verb |-> "DELETE", path |-> path, body |-> NoBody,
     headers |-> <<>>]

\* the model lets at most MaxCalls calls be made
CanCall == Len(calls) < MaxCalls

\* An async method runs up to its await: the request is handed to the
\* transport, which returns a pending promise, and the method suspends.
Invoke(op, args, form, request) ==
    /\ calls' = Append(calls, [op |-> op, args |-> args, formData |-> form,
                               req |-> Len(network) + 1, state |-> "await",
                               result |-> 0])
    /\ network' = Append(network, [call |-> Len(calls) + 1, via |-> request.via,
                                   verb |-> request.verb, path |-> request.path,
                                   body |-> request.body,
                                   headers |-> request.headers])
    /\ promises' = Append(promises, [state |-> "pending", ref |-> 0])
    /\ UNCHANGED <<console, heap, pkgVars>>

(***************************************************************************)
(* KnowledgeLibraryAPI: the fourteen methods, up to the await.             *)
(***************************************************************************)
getLibraries ==
    /\ CanCall
    /\ Invoke("getLibraries", <<>>, NoBody,
              HttpGet(<<"/api/knowledge/libraries">>, NoBody))

getLibraryDetail(libraryId) ==
    /\ CanCall
    /\ Invoke("getLibraryDetail", [libraryId |-> libraryId], NoBody,
              HttpGet(<<"/api/knowledge/libraries/">> \o Digits(libraryId), NoBody))

createLibrary(libraryData) ==
    /\ CanCall
    /\ Invoke("createLibrary", [libraryData |-> libraryData], NoBody,
              HttpPost(<<"/api/knowledge/libraries">>, ObjBody(libraryData)))

updateLibrary(libraryId, libraryData) ==
    /\ CanCall
    /\ Invoke("updateLibrary", [libraryId |-> libraryId, libraryData |-> libraryData],
              NoBody,
              HttpPut(<<"/api/knowledge/libraries/">> \o Digits(libraryId),
                      ObjBody(libraryData)))

deleteLibrary(libraryId) ==
    /\ CanCall
    /\ Invoke("deleteLibrary", [libraryId |-> libraryId], NoBody,
              HttpDelete(<<"/api/knowledge/libraries/">> \o Digits(libraryId)))

addDocument(documentData) ==
    /\ CanCall
    /\ Invoke("addDocument", [documentData |-> documentData], NoBody,
              HttpPost(<<"/api/knowledge/documents">>, ObjBody(documentData)))

\* a slip: updateDocument copied from updateLibrary with the path left as it was
updateDocumentLibraryPath(documentId, documentData) ==
    /\ CanCall
    /\ Invoke("updateDocument",
              [documentId |-> documentId, documentData |-> documentData], NoBody,
              HttpPut(<<"/api/knowledge/libraries/">> \o Digits(documentId),
                      ObjBody(documentData)))

updateDocument(documentId, documentData) ==
    /\ CanCall
    /\ Invoke("updateDocument",
              [documentId |-> documentId, documentData |-> documentData], NoBody,
              HttpPut(<<"/api/knowledge/documents/">> \o Digits(documentId),
                      ObjBody(documentData)))

deleteDocument(documentId) ==
    /\ CanCall
    /\ Invoke("deleteDocument", [documentId |-> documentId], NoBody,
              HttpDelete(<<"/api/knowledge/documents/">> \o Digits(documentId)))

getUploadUrl(documentName) ==
    /\ CanCall
    /\ Invoke("getUploadUrl", [documentName |-> documentName], NoBody,
              HttpPost(<<"/api/knowledge/upload-url">>,
                       Literal(<<[name |-> "document_name",
                                  value |-> Text(documentName)]>>)))

\* a slip: the FormData is sent, and the browser sets the multipart Content-Type
UploadRequestMultipart(uploadUrl, file) ==
    [via |-> "fetch", verb |-> "PUT", path |-> uploadUrl,
     body |-> FormAppend(NewFormData, "file", Blob(file)), headers |-> <<>>]

\* the fetch(uploadUrl, {method, body, headers}) of uploadFileToOSS
UploadRequest(uploadUrl, file) ==
    [via |-> "fetch", verb |-> "PUT", path |-> uploadUrl, body |-> FileBody(file),
     headers |-> <<[name |-> "Content-Type", value |-> file.type]>>]

uploadFileToOSS(uploadUrl, file) ==
    /\ CanCall
    /\ Invoke("uploadFileToOSS", [uploadUrl |-> uploadUrl, file |-> file],
              FormAppend(NewFormData, "file", Blob(file)),
              UploadRequest(uploadUrl, file))

crawlSite(crawlData) ==
    /\ CanCall
    /\ Invoke("crawlSite", [crawlData |-> crawlData], NoBody,
              HttpPost(<<"/api/crawl/site">>, ObjBody(crawlData)))

\* a slip: chunkStrategy without its default value
LocalFileFormNoDefault(file, collectionId, libraryId, chunkStrategy) ==
    FormAppend(
      FormAppend(
        FormAppend(
          FormAppend(NewFormData, "file", Blob(file)),
          "collection_id", Text(collectionId)),
        "library_id", Num(libraryId)),
      "chunk_strategy",
      Text(IF chunkStrategy.given THEN chunkStrategy.value ELSE <<"undefined">>))

\* the FormData uploadLocalFile builds; chunkStrategy = 'markdown' by default
LocalFileForm(file, collectionId, libraryId, chunkStrategy) ==
    FormAppend(
      FormAppend(
        FormAppend(
          FormAppend(NewFormData, "file", Blob(file)),
          "collection_id", Text(collectionId)),
        "library_id", Num(libraryId)),
      "chunk_strategy", Text(DefaultTo(chunkStrategy, <<"markdown">>)))

uploadLocalFile(file, collectionId, libraryId, chunkStrategy) ==
    /\ CanCall
    /\ Invoke("uploadLocalFile",
              [file |-> file, collectionId |-> collectionId, libraryId |-> libraryId,
               chunkStrategy |-> chunkStrategy],
              LocalFileForm(file, collectionId, libraryId, chunkStrategy),
              HttpPost(<<"/api/upload/process">>,
                       LocalFileForm(file, collectionId, libraryId, chunkStrategy)))

\* a slip: label without its default value, so that no label is sent
GraphQueryNoDefault(label) ==
    IF label.given
    THEN Literal(<<[name |-> "label", value |-> Text(label.value)]>>)
    ELSE Literal(<<>>)

\* the query of getKnowledgeGraph; label = '*' by default
GraphQuery(label) ==
    Literal(<<[name |-> "label", value |-> Text(DefaultTo(label, <<"*">>))]>>)

getKnowledgeGraph(collectionId, label) ==
    /\ CanCall
    /\ Invoke("getKnowledgeGraph", [collectionId |-> collectionId, label |-> label],
              NoBody,
              HttpGet(<<"/api/visual/graph/">> \o collectionId, GraphQuery(label)))

processOSSDocument(ossUrl, collectionId, documentName, libraryId) ==
    /\ CanCall
    /\ Invoke("processOSSDocument",
              [ossUrl |-> ossUrl, collectionId |-> collectionId,
               documentName |-> documentName, libraryId |-> libraryId], NoBody,
              HttpPost(<<"/api/crawl/process-oss-document">>,
                       Literal(<<[name |-> "oss_url", value |-> Text(ossUrl)],
                                 [name |-> "collection_id", value |-> Text(collectionId)],
                                 [name |-> "document_name", value |-> Text(documentName)],
                                 [name |-> "library_id", value |-> Num(libraryId)]>>)))

(***************************************************************************)
(* The transports settle their promises.                                   *)
(***************************************************************************)
Settle(i, state, object) ==
    /\ i \in 1..Len(promises)
    /\ promises[i].state = "pending"
    /\ Alloc(TransportRef(i), object)
    /\ promises' = [promises EXCEPT ![i] = [state |-> state, ref |-> TransportRef(i)]]
    /\ UNCHANGED <<calls, network, console, pkgVars>>

\* httpClient resolves with the parsed response
HttpFulfil(i, tag) ==
    /\ i \in 1..Len(network) /\ network[i].via = "httpClient"
    /\ Settle(i, "fulfilled", HttpValue(tag))

\* httpClient rejects
HttpReject(i, tag) ==
    /\ i \in 1..Len(network) /\ network[i].via = "httpClient"
    /\ Settle(i, "rejected", Failure(tag))

\* fetch resolves with a Response, whatever its status
FetchFulfil(i, response) ==
    /\ i \in 1..Len(network) /\ network[i].via = "fetch"
    /\ Settle(i, "fulfilled", response)

\* fetch rejects (a network error)
FetchReject(i, tag) ==
    /\ i \in 1..Len(network) /\ network[i].via = "fetch"
    /\ Settle(i, "rejected", Failure(tag))

(***************************************************************************)
(* KnowledgeLibraryAPI: the methods resume after the await.                *)
(***************************************************************************)
\* a slip: the promise kept in a variable the calls share, so the latest one
AwaitedLatest(c) == promises[Len(promises)]

\* the promise a suspended call awaits: the one of its own request
Awaited(c) == promises[calls[c].req]

\* the first argument of console.error in each method's catch block
ErrorLabel(op) ==
    CASE op = "getLibraries" -> "getLibraries failed:"
      [] op = "getLibraryDetail" -> "getLibraryDetail failed:"
      [] op = "createLibrary" -> "createLibrary failed:"
      [] op = "updateLibrary" -> "updateLibrary failed:"
      [] op = "deleteLibrary" -> "deleteLibrary failed:"
      [] op = "addDocument" -> "addDocument failed:"
      [] op = "updateDocument" -> "updateDocument failed:"
      [] op = "deleteDocument" -> "deleteDocument failed:"
      [] op = "getUploadUrl" -> "getUploadUrl failed:"
      [] op = "uploadFileToOSS" -> "uploadFileToOSS failed:"
      [] op = "crawlSite" -> "crawlSite failed:"
      [] op = "uploadLocalFile" -> "uploadLocalFile failed:"
      [] op = "getKnowledgeGraph" -> "getKnowledgeGraph failed:"
      [] op = "processOSSDocument" -> "processOSSDocument failed:"

\* return value
Return(c, ref) ==
    calls' = [calls EXCEPT ![c].state = "resolved", ![c].result = ref]

\* a slip: the catch block without its throw, so the method returns undefined
CatchSwallow(c, ref) ==
    /\ console' = Append(console, [call |-> c, label |-> ErrorLabel(calls[c].op),
                                   error |-> ref])
    /\ calls' = [calls EXCEPT ![c].state = "resolved", ![c].result = 0]

\* catch (error) { console.error(label, error); throw error }
Catch(c, ref) ==
    /\ console' = Append(console, [call |-> c, label |-> ErrorLabel(calls[c].op),
                                   error |-> ref])
    /\ calls' = [calls EXCEPT ![c].state = "rejected", ![c].result = ref]

\* the thirteen methods over httpClient:
\*   const response = await httpClient...; return response   or the catch block
ResumeHttp(c) ==
    /\ c \in 1..Len(calls)
    /\ calls[c].state = "await"
    /\ calls[c].op # "uploadFileToOSS"
    /\ Awaited(c).state # "pending"
    /\ IF Awaited(c).state = "fulfilled"
       THEN Return(c, Awaited(c).ref) /\ UNCHANGED <<console, heap>>
       ELSE Catch(c, Awaited(c).ref) /\ UNCHANGED heap
    /\ UNCHANGED <<network, promises, pkgVars>>

\* a slip: the message without the status
UploadErrorMessageNoStatus(response) == <<"upload failed: ">> \o response.text

\* `upload failed: ${response.status} ${response.statusText}`
UploadErrorMessage(response) ==
    <<"upload failed: ">> \o Digits(response.status) \o <<" ">> \o response.text

\* a slip: the URL cut at its last "?"
StripQueryLast(uploadUrl) ==
    LET parts == Split(uploadUrl, "?")
    IN  IF Len(parts) = 1 THEN uploadUrl
        ELSE SubSeq(uploadUrl, 1, Len(uploadUrl) - Len(parts[Len(parts)]) - 1)

\* uploadUrl.split('?')[0]
StripQuery(uploadUrl) == Split(uploadUrl, "?")[1]

\* uploadFileToOSS after await fetch(...)
ResumeUploadFileToOSS(c) ==
    /\ c \in 1..Len(calls)
    /\ calls[c].state = "await"
    /\ calls[c].op = "uploadFileToOSS"
    /\ Awaited(c).state # "pending"
    /\ IF Awaited(c).state = "rejected"
       THEN Catch(c, Awaited(c).ref) /\ UNCHANGED heap
       ELSE IF ~ResponseOk(heap[Awaited(c).ref])
       THEN /\ Alloc(OwnRef(c), NewError(UploadErrorMessage(heap[Awaited(c).ref])))
            /\ Catch(c, OwnRef(c))
       ELSE /\ Alloc(OwnRef(c), UploadResult(StripQuery(calls[c].args.uploadUrl)))
            /\ Return(c, OwnRef(c))
            /\ UNCHANGED console
    /\ UNCHANGED <<network, promises, pkgVars>>

(***************************************************************************)
(* Inputs.                                                                 *)
(***************************************************************************)
PdfFile == [name |-> "a.pdf", type |-> <<"application/pdf">>]
MdFile == [name |-> "b.md", type |-> <<"text/markdown">>]

\* the inputs of the calls that run concurrently
Few ==
    [ids |-> {7}, objects |-> {"data-A"}, names |-> {<<"a", ".pdf">>},
     urls |-> {<<"u", "?", "k">>}, files |-> {PdfFile},
     collections |-> {<<"col-1">>},
     labels |-> {Omitted}, strategies |-> {Omitted},
     values |-> {"r1"}, failures |-> {"network"},
     responses |-> {Response(200, <<"OK">>), Response(403, <<"Forbidden">>)}]

\* the inputs of a call that runs alone
Many ==
    [ids |-> {7, 42}, objects |-> {"data-A", "data-B"},
     names |-> {<<"a", ".pdf">>, <<"b.md">>},
     urls |-> StringsUpTo({"u", "?"}, MaxUrlLen), files |-> {PdfFile, MdFile},
     collections |-> {<<"col-1">>, <<"col", "-2">>},
     labels |-> {Omitted, Given(<<"*">>), Given(<<"entity">>), Given(<<>>)},
     strategies |-> {Omitted, Given(<<"markdown">>), Given(<<"recursive">>)},
     values |-> {"r1", "r2"}, failures |-> {"network", "http-500"},
     responses |-> {Response(200, <<"OK">>), Response(200, <<>>),
                    Response(204, <<"No", " ", "Content">>),
                    Response(304, <<"Not Modified">>),
                    Response(403, <<"Forbidden">>), Response(500, <<>>)}]

(***************************************************************************)
(* The API client: any method may be called, any pending promise may       *)
(* settle, any call whose promise has settled may resume.                  *)
(***************************************************************************)
NoScript ==
    /\ script = "none" /\ pc = 0 /\ cwd = <<>> /\ fs = {}
    /\ failed = FALSE /\ reported = FALSE

InitApi ==
    /\ calls = <<>> /\ network = <<>> /\ promises = <<>>
    /\ console = <<>> /\ heap = <<>>
    /\ NoScript

CallAny(in) ==
    \/ getLibraries
    \/ \E id \in in.ids : getLibraryDetail(id)
    \/ \E data \in in.objects : createLibrary(data)
    \/ \E id \in in.ids, data \in in.objects : updateLibrary(id, data)
    \/ \E id \in in.ids : deleteLibrary(id)
    \/ \E data \in in.objects : addDocument(data)
    \/ \E id \in in.ids, data \in in.objects : updateDocument(id, data)
    \/ \E id \in in.ids : deleteDocument(id)
    \/ \E name \in in.names : getUploadUrl(name)
    \/ \E url \in in.urls, file \in in.files : uploadFileToOSS(url, file)
    \/ \E data \in in.objects : crawlSite(data)
    \/ \E file \in in.files, col \in in.collections, id \in in.ids,
          strategy \in in.strategies : uploadLocalFile(file, col, id, strategy)
    \/ \E col \in in.collections, label \in in.labels : getKnowledgeGraph(col, label)
    \/ \E url \in in.urls, col \in in.collections, name \in in.names, id \in in.ids :
          processOSSDocument(url, col, name, id)

SettleAny(in) ==
    \/ \E i \in 1..Len(promises), tag \in in.values : HttpFulfil(i, tag)
    \/ \E i \in 1..Len(promises), tag \in in.failures : HttpReject(i, tag)
    \/ \E i \in 1..Len(promises), r \in in.responses : FetchFulfil(i, r)
    \/ \E i \in 1..Len(promises), tag \in in.failures : FetchReject(i, tag)

ResumeAny ==
    \/ \E c \in 1..Len(calls) : ResumeHttp(c)
    \/ \E c \in 1..Len(calls) : ResumeUploadFileToOSS(c)

\* calls in flight together
Next == CallAny(Few) \/ SettleAny(Few) \/ ResumeAny
Spec == InitApi /\ [][Next]_vars

\* one call, over the wide inputs
NextAlone == (calls = <<>> /\ CallAny(Many)) \/ SettleAny(Many) \/ ResumeAny
SpecAlone == InitApi /\ [][NextAlone]_vars

(***************************************************************************)
(* The packaging scripts: package_project.sh and package_project.bat.      *)
(* A path is the sequence of its components; the file system is the set of *)
(* the paths that exist.  A script is the sequence of its commands.        *)
(***************************************************************************)
PROJECT_NAME == "AdaptiMultiRAG"
OUTPUT_DIR == "dist"
\* ARCHIVE_NAME, computed once when the script starts
ArchiveName(sc) ==
    IF sc = "sh" THEN "AdaptiMultiRAG-DATE.tar.gz" ELSE "AdaptiMultiRAG-DATE.zip"

\* ORIGINAL_DIR=$(pwd): the project directory the script is started from
ORIGINAL_DIR == <<"work", "repo">>
\* TEMP_DIR: $(mktemp -d) for the shell script, %TEMP%\%PROJECT_NAME%_temp for the batch file
TempDir(sc) ==
    IF sc = "sh" THEN <<"tmp", "tmp.X">> ELSE <<"Temp", "AdaptiMultiRAG_temp">>

FileNames ==
    {"main.py", "main.pyc", "app.log", ".DS_Store", ArchiveName("sh"), ArchiveName("bat")}
PycFiles == {"main.pyc"}
PyoFiles == {"main.pyo"}
EggInfo == {"pkg.egg-info"}
LogFiles == {"app.log"}

IsPrefix(a, b) == Len(a) <= Len(b) /\ SubSeq(b, 1, Len(a)) = a
Parent(p) == IF p = <<>> THEN <<>> ELSE SubSeq(p, 1, Len(p) - 1)
IsDir(F, p) == p = <<>> \/ (p \in F /\ p[Len(p)] \notin FileNames)
IsFile(F, p) == p \in F /\ p # <<>> /\ p[Len(p)] \in FileNames

\* rm -rf root, rmdir /s /q root: the tree at root goes
RemoveTree(F, root) == {p \in F : ~IsPrefix(root, p)}
\* rmdir /s /q root from inside root: the content goes, root itself may stay
RemoveContent(F, root) == {p \in F : p = root \/ ~IsPrefix(root, p)}
\* find . -name N ... -delete, del /s /q N: every N below dir goes, with what it holds
RemoveNamed(F, dir, names) ==
    {p \in F : ~(IsPrefix(dir, p) /\ \E k \in (Len(dir) + 1)..Len(p) : p[k] \in names)}
\* rm -f N, del /q N: the files N directly in dir go
RemoveHere(F, dir, names) ==
    {p \in F : ~(Parent(p) = dir /\ p # <<>> /\ p[Len(p)] \in names /\ IsFile(F, p))}
\* cp -r src dst, xcopy /E /I src dst: dst becomes a copy of the tree at src
CopyTree(F, src, dst) ==
    F \cup {dst \o SubSeq(p, Len(src) + 1, Len(p)) : p \in {q \in F : IsPrefix(src, q)}}

\* commands
MkTemp(line) == [cmd |-> "mktemp", abs |-> TRUE, path |-> <<>>, names |-> {}, line |-> line]
\* mkdir path: an error when path exists
MkDir(abs, path, line) ==
    [cmd |-> "mkdir", abs |-> abs, path |-> path, names |-> {}, line |-> line]
\* mkdir -p path, if not exist path mkdir path
MkDirP(abs, path, line) ==
    [cmd |-> "mkdirp", abs |-> abs, path |-> path, names |-> {}, line |-> line]
CpTree(abs, path, line) ==
    [cmd |-> "cptree", abs |-> abs, path |-> path, names |-> {}, line |-> line]
Cd(abs, path, line) == [cmd |-> "cd", abs |-> abs, path |-> path, names |-> {}, line |-> line]
CdUp(line) == [cmd |-> "cdup", abs |-> FALSE, path |-> <<>>, names |-> {}, line |-> line]
RmTree(abs, path, line) ==
    [cmd |-> "rmtree", abs |-> abs, path |-> path, names |-> {}, line |-> line]
RmNamed(names, line) ==
    [cmd |-> "rmnamed", abs |-> FALSE, path |-> <<>>, names |-> names, line |-> line]
RmHere(names, line) ==
    [cmd |-> "rmhere", abs |-> FALSE, path |-> <<>>, names |-> names, line |-> line]
\* tar -czf / Compress-Archive: the archive of ./PROJECT_NAME written at path
Archive(path, line) ==
    [cmd |-> "archive", abs |-> FALSE, path |-> path, names |-> {}, line |-> line]
\* cp ARCHIVE_NAME dir/
CpArchive(abs, path, line) ==
    [cmd |-> "cparchive", abs |-> abs, path |-> path, names |-> {}, line |-> line]
\* du -h file
Du(abs, path, line) == [cmd |-> "du", abs |-> abs, path |-> path, names |-> {}, line |-> line]
\* echo of the output file
EchoOutput(line) ==
    [cmd |-> "echo", abs |-> FALSE, path |-> <<>>, names |-> {}, line |-> line]

\* package_project.sh, by line
ShScript ==
    <<MkTemp(21),
      CpTree(TRUE, TempDir("sh") \o <<PROJECT_NAME>>, 22),
      Cd(TRUE, TempDir("sh") \o <<PROJECT_NAME>>, 23),
      Cd(FALSE, <<"rag-backend">>, 27),
      RmTree(FALSE, <<".venv">>, 30),
      RmNamed({"__pycache__"}, 33),
      RmNamed(PycFiles, 34),
      RmNamed(PyoFiles, 35),
      RmNamed(EggInfo, 36),
      RmHere({"lightrag.log"}, 39),
      RmHere(LogFiles, 40),
      CdUp(42),
      Cd(FALSE, <<"rag-frontend">>, 46),
      RmTree(FALSE, <<"node_modules">>, 49),
      RmTree(FALSE, <<"dist">>, 52),
      CdUp(54),
      RmNamed({".DS_Store"}, 60),
      CdUp(64),
      Archive(<<ArchiveName("sh")>>, 67),
      MkDirP(TRUE, ORIGINAL_DIR \o <<OUTPUT_DIR>>, 71),
      CpArchive(TRUE, ORIGINAL_DIR \o <<OUTPUT_DIR>>, 72),
      Du(TRUE, ORIGINAL_DIR \o <<OUTPUT_DIR, ArchiveName("sh")>>, 75),
      RmTree(TRUE, TempDir("sh"), 78),
      EchoOutput(83)>>

\* package_project.bat, by line of src/unnamed/part_000
BatScript ==
    <<RmTree(TRUE, TempDir("bat"), 485),
      MkDir(TRUE, TempDir("bat"), 486),
      CpTree(TRUE, TempDir("bat") \o <<PROJECT_NAME>>, 487),
      Cd(TRUE, TempDir("bat") \o <<PROJECT_NAME>>, 488),
      Cd(FALSE, <<"rag-backend">>, 492),
      RmTree(FALSE, <<".venv">>, 495),
      RmNamed({"__pycache__"}, 498),
      RmNamed(PycFiles, 499),
      RmNamed(PyoFiles, 500),
      RmHere(LogFiles, 503),
      CdUp(505),
      Cd(FALSE, <<"rag-frontend">>, 509),
      RmTree(FALSE, <<"node_modules">>, 512),
      RmTree(FALSE, <<"dist">>, 515),
      CdUp(517),
      RmNamed({".DS_Store"}, 521),
      CdUp(525),
      MkDirP(FALSE, <<OUTPUT_DIR>>, 526),
      Archive(<<OUTPUT_DIR, ArchiveName("bat")>>, 529),
      EchoOutput(534),
      RmTree(TRUE, TempDir("bat"), 538)>>

\* what a command may do to the file system F from the directory d
Target(d, c) == IF c.abs THEN c.path ELSE d \o c.path
Done(F, d) == [fs |-> F, cwd |-> d, ok |-> TRUE]
Error(F, d) == [fs |-> F, cwd |-> d, ok |-> FALSE]
WithParents(t) == {SubSeq(t, 1, k) : k \in 1..Len(t)}

Outcomes(F, d, sc, c) ==
    LET t == Target(d, c)
    IN  CASE c.cmd = "mktemp" ->
               {Done(F \cup WithParents(TempDir(sc)), d), Error(F, d)}
          [] c.cmd = "mkdir" ->
               IF t \in F THEN {Error(F, d)}
               ELSE {Done(F \cup WithParents(t), d), Error(F, d)}
          [] c.cmd = "mkdirp" ->
               IF t \in F THEN {Done(F, d)}
               ELSE {Done(F \cup WithParents(t), d), Error(F, d)}
          [] c.cmd = "cptree" ->
               IF IsDir(F, Parent(t))
               THEN {Done(CopyTree(F, d, t), d), Error(F, d)}
               ELSE {Error(F, d)}
          [] c.cmd = "cd" ->
               IF IsDir(F, t) THEN {Done(F, t)} ELSE {Error(F, d)}
          [] c.cmd = "cdup" -> {Done(F, Parent(d))}
          [] c.cmd = "rmtree" ->
               IF sc = "bat" /\ IsPrefix(t, d) /\ t \in F
               THEN {Done(RemoveTree(F, t), d), Error(RemoveContent(F, t), d)}
               ELSE {Done(RemoveTree(F, t), d)}
          [] c.cmd = "rmnamed" -> {Done(RemoveNamed(F, d, c.names), d)}
          [] c.cmd = "rmhere" -> {Done(RemoveHere(F, d, c.names), d)}
          [] c.cmd = "archive" ->
               IF IsDir(F, d \o <<PROJECT_NAME>>) /\ IsDir(F, Parent(t))
               THEN {Done(F \cup {t}, d), Error(F, d)}
               ELSE {Error(F, d)}
          [] c.cmd = "cparchive" ->
               IF IsFile(F, d \o <<ArchiveName(sc)>>) /\ IsDir(F, t)
               THEN {Done(F \cup {t \o <<ArchiveName(sc)>>}, d), Error(F, d)}
               ELSE {Error(F, d)}
          [] c.cmd = "du" -> IF t \in F THEN {Done(F, d)} ELSE {Error(F, d)}
          [] c.cmd = "echo" -> {Done(F, d)}

\* a command runs
Run(c, o) ==
    /\ o \in Outcomes(fs, cwd, script, c)
    /\ fs' = o.fs
    /\ cwd' = o.cwd
    /\ failed' = (failed \/ ~o.ok)
    /\ reported' = (reported \/ (c.cmd = "echo"))
    /\ UNCHANGED <<script, apiVars>>

\* package_project.sh runs under set -e: a command that fails ends the script
package_project_sh ==
    /\ script = "sh"
    /\ pc \in 1..Len(ShScript)
    /\ \E o \in Outcomes(fs, cwd, script, ShScript[pc]) :
          /\ Run(ShScript[pc], o)
          /\ pc' = IF ~o.ok \/ pc = Len(ShScript) THEN 0 ELSE pc + 1

\* package_project.bat checks no command's result: the next command runs
package_project_bat ==
    /\ script = "bat"
    /\ pc \in 1..Len(BatScript)
    /\ \E o \in Outcomes(fs, cwd, script, BatScript[pc]) :
          /\ Run(BatScript[pc], o)
          /\ pc' = IF pc = Len(BatScript) THEN 0 ELSE pc + 1

\* the project directory before the script runs
ProjectFiles ==
    {<<"rag-backend">>, <<"rag-backend", ".venv">>, <<"rag-backend", "__pycache__">>,
     <<"rag-backend", "main.py">>, <<"rag-backend", "main.pyc">>,
     <<"rag-backend", "app.log">>,
     <<"rag-frontend">>, <<"rag-frontend", "node_modules">>, <<"rag-frontend", "dist">>,
     <<".DS_Store">>, <<"dist">>}
ProjectTrees ==
    {T \in SUBSET ProjectFiles : \A p \in T : Len(p) > 1 => Parent(p) \in T}
BaseDirs == {<<"work">>, ORIGINAL_DIR, <<"tmp">>, <<"Temp">>}
\* what an earlier run of the batch file may have left in %TEMP%
StaleTemp == {TempDir("bat"), TempDir("bat") \o <<"old">>}

InitPkg ==
    /\ calls = <<>> /\ network = <<>> /\ promises = <<>>
    /\ console = <<>> /\ heap = <<>>
    /\ script \in {"sh", "bat"}
    /\ pc = 1
    /\ cwd = ORIGINAL_DIR
    /\ \E T \in ProjectTrees, stale \in {{}, StaleTemp} :
          fs = BaseDirs \cup {ORIGINAL_DIR \o p : p \in T}
                        \cup (IF script = "bat" THEN stale ELSE {})
    /\ failed = FALSE
    /\ reported = FALSE

NextPkg == package_project_sh \/ package_project_bat
SpecPkg == InitPkg /\ [][NextPkg]_vars

(***************************************************************************)
(* Properties.                                                             *)
(***************************************************************************)
CallIds == 1..Len(calls)
\* the requests a call has issued, and the diagnostics logged for it
RequestsOf(c) == {i \in 1..Len(network) : network[i].call = c}
LogsOf(c) == {k \in 1..Len(console) : console[k].call = c}
OwnRequest(c) == CHOOSE i \in RequestsOf(c) : TRUE
Resumed(c) == calls[c].state # "await"
Contains(s, sub) ==
    \E i \in 0..(Len(s) - Len(sub)) : SubSeq(s, i + 1, i + Len(sub)) = sub
FieldNames(body) == [k \in 1..Len(body.fields) |-> body.fields[k].name]

HttpOps ==
    {"getLibraries", "getLibraryDetail", "createLibrary", "updateLibrary",
     "deleteLibrary", "addDocument", "updateDocument", "deleteDocument",
     "getUploadUrl", "crawlSite", "uploadLocalFile", "getKnowledgeGraph",
     "processOSSDocument"}

\* the decimal form of the ids and statuses used as inputs
Decimal(n) ==
    CASE n = 7 -> <<"7">>
      [] n = 42 -> <<"4", "2">>
      [] n = 200 -> <<"2", "0", "0">>
      [] n = 204 -> <<"2", "0", "4">>
      [] n = 304 -> <<"3", "0", "4">>
      [] n = 403 -> <<"4", "0", "3">>
      [] n = 500 -> <<"5", "0", "0">>

\* the operation catalogue: verb and path of each operation called with arguments a
CatalogueVerb(op) ==
    CASE op \in {"getLibraries", "getLibraryDetail", "getKnowledgeGraph"} -> "GET"
      [] op \in {"createLibrary", "addDocument", "getUploadUrl", "crawlSite",
                 "uploadLocalFile", "processOSSDocument"} -> "POST"
      [] op \in {"updateLibrary", "updateDocument", "uploadFileToOSS"} -> "PUT"
      [] op \in {"deleteLibrary", "deleteDocument"} -> "DELETE"

CataloguePath(op, a) ==
    CASE op \in {"getLibraries", "createLibrary"} -> <<"/api/knowledge/libraries">>
      [] op \in {"getLibraryDetail", "updateLibrary", "deleteLibrary"} ->
           <<"/api/knowledge/libraries/">> \o Decimal(a.libraryId)
      [] op = "addDocument" -> <<"/api/knowledge/documents">>
      [] op \in {"updateDocument", "deleteDocument"} ->
           <<"/api/knowledge/documents/">> \o Decimal(a.documentId)
      [] op = "getUploadUrl" -> <<"/api/knowledge/upload-url">>
      [] op = "crawlSite" -> <<"/api/crawl/site">>
      [] op = "uploadLocalFile" -> <<"/api/upload/process">>
      [] op = "getKnowledgeGraph" -> <<"/api/visual/graph/">> \o a.collectionId
      [] op = "processOSSDocument" -> <<"/api/crawl/process-oss-document">>

\* the caller's payload, as the catalogue has it sent
PayloadForwarded(op, a, body) ==
    CASE op \in {"getLibraries", "getLibraryDetail", "deleteLibrary", "deleteDocument"} ->
           body.kind = "none"
      [] op \in {"createLibrary", "updateLibrary"} ->
           body.kind = "object" /\ body.obj = a.libraryData
      [] op \in {"addDocument", "updateDocument"} ->
           body.kind = "object" /\ body.obj = a.documentData
      [] op = "crawlSite" -> body.kind = "object" /\ body.obj = a.crawlData
      [] op = "getUploadUrl" ->
           /\ body.kind = "literal"
           /\ FieldNames(body) = <<"document_name">>
           /\ body.fields[1].value = Text(a.documentName)
      [] op = "uploadLocalFile" ->
           /\ body.kind = "FormData"
           /\ FieldNames(body) = <<"file", "collection_id", "library_id", "chunk_strategy">>
           /\ body.fields[1].value = Blob(a.file)
           /\ body.fields[2].value = Text(a.collectionId)
           /\ body.fields[3].value = Text(Decimal(a.libraryId))
      [] op = "getKnowledgeGraph" ->
           body.kind = "literal" /\ FieldNames(body) = <<"label">>
      [] op = "processOSSDocument" ->
           /\ body.kind = "literal"
           /\ FieldNames(body) = <<"oss_url", "collection_id", "document_name", "library_id">>
           /\ body.fields[1].value = Text(a.ossUrl)
           /\ body.fields[2].value = Text(a.collectionId)
           /\ body.fields[3].value = Text(a.documentName)
           /\ body.fields[4].value = Num(a.libraryId)

\* C1: an operation over httpClient whose client call succeeded has issued
\* exactly one request, with the catalogue's verb and path and the caller's
\* payload, and has resolved to the very value the client returned.
C1_PassThrough ==
    \A c \in CallIds :
        (calls[c].op \in HttpOps /\ calls[c].state = "resolved") =>
            /\ Cardinality(RequestsOf(c)) = 1
            /\ LET r == network[OwnRequest(c)]
               IN  /\ r.via = "httpClient"
                   /\ r.verb = CatalogueVerb(calls[c].op)
                   /\ r.path = CataloguePath(calls[c].op, calls[c].args)
                   /\ PayloadForwarded(calls[c].op, calls[c].args, r.body)
            /\ promises[OwnRequest(c)].state = "fulfilled"
            /\ calls[c].result = promises[OwnRequest(c)].ref

C1_Witness ==
    \E c \in CallIds :
        /\ calls[c].op = "updateDocument" /\ calls[c].state = "resolved"
        /\ calls[c].args.documentId = 42
        /\ heap[calls[c].result].tag = "r2"

\* C2: when the transport call of an operation is rejected with e, the
\* operation rejects with that same object e, one diagnostic is logged for the
\* call (none before it resumes), and the call issues no second request.
C2_LogAndRethrow ==
    \A c \in CallIds :
        /\ Cardinality(RequestsOf(c)) = 1
        /\ ~Resumed(c) => LogsOf(c) = {}
        /\ (Resumed(c) /\ promises[OwnRequest(c)].state = "rejected") =>
              /\ calls[c].state = "rejected"
              /\ calls[c].result = promises[OwnRequest(c)].ref
              /\ heap[calls[c].result].kind = "failure"
              /\ Cardinality(LogsOf(c)) = 1
              /\ \A k \in LogsOf(c) : console[k].error = promises[OwnRequest(c)].ref

\* both transports have rejected, an httpClient call and the fetch of an upload
C2_Witness ==
    /\ Len(calls) = 2
    /\ calls[1].op = "uploadFileToOSS" /\ calls[2].op = "crawlSite"
    /\ \A c \in CallIds :
          /\ calls[c].state = "rejected"
          /\ promises[OwnRequest(c)].state = "rejected"
    /\ heap[calls[1].result] = heap[calls[2].result]
    /\ calls[1].result # calls[2].result

\* the part of url before its first "?", said without split
BeforeFirstQuestionMark(url, u) ==
    /\ IsPrefix(u, url)
    /\ \A k \in 1..Len(u) : u[k] # "?"
    /\ (u = url \/ url[Len(u) + 1] = "?")

\* C3: uploadFileToOSS whose fetch got a 2xx response resolves to
\* {success: true, url: u}, u being uploadUrl up to its first "?" (all of
\* uploadUrl when it has none).
C3_UploadSuccess ==
    \A c \in CallIds :
        (/\ calls[c].op = "uploadFileToOSS" /\ Resumed(c)
         /\ promises[OwnRequest(c)].state = "fulfilled"
         /\ heap[promises[OwnRequest(c)].ref].status \in 200..299) =>
            /\ calls[c].state = "resolved"
            /\ heap[calls[c].result].kind = "result"
            /\ heap[calls[c].result].success = TRUE
            /\ BeforeFirstQuestionMark(calls[c].args.uploadUrl,
                                       heap[calls[c].result].text)

\* an upload URL with two "?" has been cut at the first
C3_Witness ==
    \E c \in CallIds :
        /\ calls[c].op = "uploadFileToOSS" /\ calls[c].state = "resolved"
        /\ calls[c].args.uploadUrl = <<"u", "?", "?">>
        /\ heap[calls[c].result].text = <<"u">>

\* C4: uploadFileToOSS whose fetch got a response that is not 2xx does not
\* resolve: it rejects with an Error whose message holds the status and the
\* status text of that response, and that rejection is logged once.
C4_UploadHttpError ==
    \A c \in CallIds :
        (/\ calls[c].op = "uploadFileToOSS" /\ Resumed(c)
         /\ promises[OwnRequest(c)].state = "fulfilled"
         /\ heap[promises[OwnRequest(c)].ref].status \notin 200..299) =>
            LET response == heap[promises[OwnRequest(c)].ref]
                error == heap[calls[c].result]
            IN  /\ calls[c].state = "rejected"
                /\ error.kind = "Error"
                /\ Contains(error.text, Decimal(response.status))
                /\ Contains(error.text, response.text)
                /\ Cardinality(LogsOf(c)) = 1
                /\ \A k \in LogsOf(c) : console[k].error = calls[c].result

C4_Witness ==
    \E c \in CallIds :
        /\ calls[c].op = "uploadFileToOSS" /\ calls[c].state = "rejected"
        /\ promises[OwnRequest(c)].state = "fulfilled"
        /\ heap[promises[OwnRequest(c)].ref].status = 403
        /\ Contains(heap[calls[c].result].text, <<"4", "0", "3", " ", "Forbidden">>)
        /\ Len(console) = 1

\* what the request and the response of call c alone make its outcome
OwnOutcome(c) ==
    LET p == promises[OwnRequest(c)]
    IN  IF p.state = "rejected" THEN [state |-> "rejected", object |-> heap[p.ref]]
        ELSE IF calls[c].op # "uploadFileToOSS"
        THEN [state |-> "resolved", object |-> heap[p.ref]]
        ELSE IF heap[p.ref].status \in 200..299
        THEN [state |-> "resolved",
              object |-> UploadResult(Split(calls[c].args.uploadUrl, "?")[1])]
        ELSE [state |-> "rejected",
              object |-> NewError(<<"upload failed: ">> \o Decimal(heap[p.ref].status)
                                  \o <<" ">> \o heap[p.ref].text)]

\* C5: with calls in flight together and their promises settling in any
\* order, a call settles only after its own request has, with the outcome
\* of its own request, and once settled it keeps its outcome.
C5_Independent ==
    /\ [](\A c \in CallIds :
            Resumed(c) =>
              /\ promises[OwnRequest(c)].state # "pending"
              /\ calls[c].state = OwnOutcome(c).state
              /\ heap[calls[c].result] = OwnOutcome(c).object)
    /\ [][\A c \in CallIds :
            Resumed(c) =>
              /\ calls'[c] = calls[c]
              /\ heap'[calls[c].result] = heap[calls[c].result]]_vars

\* the second call has failed while the first is still in flight
C5_Witness ==
    /\ Len(calls) = 2
    /\ calls[1].state = "await" /\ promises[OwnRequest(1)].state = "pending"
    /\ calls[2].state = "rejected"

\* C6: getKnowledgeGraph issues a GET to /api/visual/graph/{collectionId}
\* whose query is label = "*" when no label is given, label = L when L is.
C6_GraphLabel ==
    \A c \in CallIds :
        calls[c].op = "getKnowledgeGraph" =>
            LET r == network[OwnRequest(c)]
                a == calls[c].args
            IN  /\ r.verb = "GET"
                /\ r.path = <<"/api/visual/graph/">> \o a.collectionId
                /\ FieldNames(r.body) = <<"label">>
                /\ r.body.fields[1].value =
                      (IF a.label.given THEN Text(a.label.value) ELSE Text(<<"*">>))

C6_Witness ==
    \E c \in CallIds :
        /\ calls[c].op = "getKnowledgeGraph"
        /\ ~calls[c].args.label.given
        /\ network[OwnRequest(c)].body.fields[1].value.s = <<"*">>

\* C7: uploadLocalFile issues one POST to /api/upload/process whose multipart
\* body has the fields file, collection_id, library_id, chunk_strategy, with
\* chunk_strategy "markdown" when no strategy is given and S when S is.
C7_ChunkStrategy ==
    \A c \in CallIds :
        calls[c].op = "uploadLocalFile" =>
            LET r == network[OwnRequest(c)]
                a == calls[c].args
            IN  /\ Cardinality(RequestsOf(c)) = 1
                /\ r.verb = "POST"
                /\ r.path = <<"/api/upload/process">>
                /\ r.body.kind = "FormData"
                /\ FieldNames(r.body) =
                      <<"file", "collection_id", "library_id", "chunk_strategy">>
                /\ r.body.fields[4].value =
                      (IF a.chunkStrategy.given THEN Text(a.chunkStrategy.value)
                       ELSE Text(<<"markdown">>))

C7_Witness ==
    \E c \in CallIds :
        /\ calls[c].op = "uploadLocalFile"
        /\ ~calls[c].args.chunkStrategy.given
        /\ network[OwnRequest(c)].body.fields[4].value.s = <<"markdown">>

\* C9: uploadFileToOSS does not use httpClient: it issues one fetch, to the
\* caller's URL, with method PUT, the file itself as the body (not the
\* FormData it builds) and a Content-Type header equal to the file's type.
C9_RawUpload ==
    \A c \in CallIds :
        calls[c].op = "uploadFileToOSS" =>
            LET r == network[OwnRequest(c)]
                a == calls[c].args
            IN  /\ Cardinality(RequestsOf(c)) = 1
                /\ r.via = "fetch"
                /\ r.verb = "PUT"
                /\ r.path = a.uploadUrl
                /\ r.body = FileBody(a.file)
                /\ r.body # calls[c].formData
                /\ r.headers = <<[name |-> "Content-Type", value |-> a.file.type]>>

\* the upload has run to its end, and its unused form holds the file
C9_Witness ==
    \E c \in CallIds :
        /\ calls[c].op = "uploadFileToOSS" /\ calls[c].state = "resolved"
        /\ calls[c].args.file = MdFile
        /\ calls[c].formData.fields # <<>>
        /\ network[OwnRequest(c)].headers[1].value = <<"text/markdown">>

(***************************************************************************)
(* Properties of the packaging scripts.                                    *)
(***************************************************************************)
\* the file the script reports: dist/<archive name> in the project directory
OutputFile(sc) == ORIGINAL_DIR \o <<OUTPUT_DIR, ArchiveName(sc)>>
UnderOriginal(p) == IsPrefix(ORIGINAL_DIR, p)

\* C8: when a script has ended, every command having succeeded and the
\* output file having been reported, the archive is at dist/<archive name>
\* under the project directory.
C8_ArchiveDelivered ==
    (script \in {"sh", "bat"} /\ pc = 0 /\ ~failed /\ reported) =>
        OutputFile(script) \in fs

\* C10: no step of a script, in a run that goes well or not, deletes a path
\* under the project directory, and the only paths a step adds there are
\* dist and the archive in it.
C10_OriginalUntouched ==
    [][/\ \A p \in fs : UnderOriginal(p) => p \in fs'
       /\ \A p \in fs' \ fs :
             UnderOriginal(p) => p \in {ORIGINAL_DIR \o <<OUTPUT_DIR>>, OutputFile(script)}]_vars

====
